---- MODULE Spec2Model ----
(***************************************************************************)
(* The client-side predictive simulation and server-reconciliation engine  *)
(* of the arena game: App.js (session state), GameCanvas.js (tick loop,    *)
(* collision resolution, push/pull), GameLobby.js (registration), the      *)
(* GameUI sidebar (add money, withdraw) and services/api.js (network       *)
(* calls).                                                                 *)
(*                                                                         *)
(* Numbers.  JavaScript computes with doubles; the model computes with     *)
(* integers in fixed point.  Lengths (positions, radii, speeds) are in     *)
(* tenths of a pixel, direction components in hundredths, money in whole   *)
(* units.  Math.sqrt is the integer square root of the scaled argument.    *)
(***************************************************************************)
EXTENDS Integers, Sequences, FiniteSets, TLC

VARIABLES
    gameStarted,    \* App.js: gameStarted
    currentGameId,  \* App.js: currentGameId
    player,         \* App.js: player
    gameState,      \* App.js: gameState
    sincePush,      \* GameCanvas.js: now - lastPositionUpdate, in ms
    passes,         \* checkCollisions calls suspended at an await
    pulls,          \* getGameState requests in flight
    events,         \* frames, mouse events and timer firings so far (bounds the exploration)
    detected,       \* id -> times a food/power-up was detected since the last applied snapshot
    killed,         \* playerId -> kills of that remote player applied since the last applied snapshot
    prevSnap,       \* the snapshot applied last
    last,           \* what the last step did
    pushes,         \* updatePosition requests in flight
    failures,       \* failed pulls since the last applied snapshot
    exits,          \* handleBackToLobby / handleGameOver calls suspended at an await
    leaves,         \* leaveGame notifications issued for the current game
    lobby,          \* GameLobby.js: playerName, the debounce timer, register requests in flight
    ui,             \* GameUI: which copy is mounted, isProcessingPayment, the request in flight
    probe           \* arguments and results of the sizing law under test

\* state outside App.js and GameCanvas.js
offCanvas == <<lobby, ui, probe>>

vars == <<gameStarted, currentGameId, player, gameState, sincePush, passes,
          pulls, events, detected, killed, prevSnap, last, pushes, failures,
          exits, leaves, lobby, ui, probe>>

----------------------------------------------------------------------------
(* Bounds of the exploration *)

MaxEvents == 3
MaxPasses == 1
MaxFailures == 10   \* failed pulls in a row that are told apart
MaxExits == 1       \* exit handlers in flight
MaxPushes == 1      \* updatePosition requests in flight that are followed
MaxPulls == 1       \* getGameState requests in flight under the free-running timer
MaxRegs == 2        \* register requests in flight
MaxMass == 40       \* the sizing law is tried on every mass 0..MaxMass
MaxOverlap == 2     \* checkCollisions calls suspended together when overlap is studied

(* Program constants *)

CANVAS_WIDTH == 800
CANVAS_HEIGHT == 600
MOVE_SPEED == 4
MIN_SIZE == 12
FOOD_SIZE == 4
POSITION_UPDATE_INTERVAL == 50
POWERUP_DURATION == 10000

----------------------------------------------------------------------------
(* Arithmetic helpers *)

Max(a, b) == IF a >= b THEN a ELSE b
Min(a, b) == IF a <= b THEN a ELSE b

\* a / b rounded toward zero (b > 0)
Quot(a, b) == IF a >= 0 THEN a \div b ELSE -((-a) \div b)

\* Math.sqrt on a scaled non-negative integer: the integer square root
RECURSIVE Isqrt(_)
Isqrt(n) ==
    IF n < 2 THEN n
    ELSE LET s == 2 * Isqrt(n \div 4)
         IN  IF (s + 1) * (s + 1) > n THEN s ELSE s + 1

\* sum of the value fields of a sequence of entities
RECURSIVE SumValues(_)
SumValues(s) == IF s = <<>> THEN 0 ELSE Head(s).value + SumValues(Tail(s))

SeqToSet(s) == {s[i] : i \in 1..Len(s)}

\* array.map(e => e.id)
Ids(s) == [i \in 1..Len(s) |-> s[i].id]

----------------------------------------------------------------------------
(* Sizing / speed law *)

\* faulty variant: the root is subtracted
calculateSize_inverse(money) == 10 * MIN_SIZE - Isqrt(10 * money)

\* MIN_SIZE + Math.sqrt(money / 10), in tenths of a pixel
calculateSize(money) == 10 * MIN_SIZE + Isqrt(10 * money)

\* Math.max(MOVE_SPEED - size * 0.03, 2), in tenths of a pixel per tick
Speed(size) == Max(10 * MOVE_SPEED - Quot(3 * size, 100), 20)

\* faulty variant: the whole of the other player's money is earned
EarnedMoney_full(money) == money

\* Math.floor(otherPlayer.money * 0.8)
EarnedMoney(money) == (8 * money) \div 10

\* Math.sqrt(dx * dx + dy * dy) < r
Within(px, py, ex, ey, r) ==
    LET dx == px - ex
        dy == py - ey
    IN  Isqrt(dx * dx + dy * dy) < r

----------------------------------------------------------------------------
(* Entities the remote source can send.  Positions are in tenths of a     *)
(* pixel; the local player starts every game at (400, 300).               *)

LocalId == "me"
NoId == "none"
GameIds == {"g1"}
NoGame == "none"

Food1 == [id |-> "f1", x |-> 4100, y |-> 3000, value |-> 5]
Food2 == [id |-> "f2", x |-> 4195, y |-> 3000, value |-> 3]

PowerUp1 == [id |-> "p1", x |-> 4000, y |-> 3100, size |-> 80, value |-> 20]

MeAlive == [playerId |-> LocalId, x |-> 4000, y |-> 3000, money |-> 100, isAlive |-> TRUE]
MeDead  == [playerId |-> LocalId, x |-> 4000, y |-> 3000, money |-> 100, isAlive |-> FALSE]
Tiny    == [playerId |-> "a", x |-> 4050, y |-> 3000, money |-> 3, isAlive |-> TRUE]
Small   == [playerId |-> "s", x |-> 3950, y |-> 3000, money |-> 90, isAlive |-> TRUE]
Close   == [playerId |-> "c", x |-> 4000, y |-> 2950, money |-> 360, isAlive |-> TRUE]
Big     == [playerId |-> "b", x |-> 4000, y |-> 3050, money |-> 4000, isAlive |-> TRUE]

EntityIds == {"f1", "f2", "p1"}
RemoteIds == {"a", "s", "c", "b", LocalId}

\* A server answer: the fields named in missing are absent from the JSON
ServerState(food, players, powerUps, missing) ==
    [food |-> food, players |-> players, powerUps |-> powerUps,
     gameStats |-> [playersOnline |-> Len(players), foodItems |-> Len(food)],
     missing |-> missing]

Snapshots ==
    { ServerState(<<Food1, Food2>>, <<MeAlive, Tiny, Close>>, <<PowerUp1>>, {}),
      ServerState(<<Food2>>, <<MeDead, Small, Big>>, <<>>, {}),
      ServerState(<<>>, <<MeAlive, Tiny, Small>>, <<>>, {}),
      ServerState(<<>>, <<Close>>, <<>>, {"food", "powerUps", "gameStats"}),
      ServerState(<<Food1>>, <<MeAlive>>, <<>>, {}) }

NoSnapshot == ServerState(<<>>, <<>>, <<>>, {"none"})

\* serverGameState.field || []
OrEmpty(server, field, value) == IF field \in server.missing THEN <<>> ELSE value

EmptyStats == [playersOnline |-> 0, foodItems |-> 0]

\* Mouse positions on the canvas (events the pointer can deliver)
MousePoints == { <<8000, 3000>>, <<4000, 0>> }

\* Milliseconds between two animation frames
FrameGaps == {30, 60}

\* Money the player can hold when a game starts: handleStartGame keeps
\* prev.money, and money only grows (collision awards, PaymentModal's
\* money: prev.money + amount), without a cap
InitMoney == {100, 850000}

NullDirection == [null |-> TRUE, x |-> 0, y |-> 0]

NoSeen == [x |-> 0, y |-> 0, money |-> 0, food |-> <<>>, powerUps |-> <<>>,
           otherPlayers |-> <<>>]

----------------------------------------------------------------------------
(* App.js: the state in the lobby, once GameLobby has registered the player
   (player.id set) and before handleStartGame *)

InitPlayer(money) ==
    [id |-> LocalId, name |-> "ann", x |-> 4000, y |-> 3000, money |-> money,
     virtualMoney |-> 250, realMoney |-> 0, score |-> 0, kills |-> 0,
     isAlive |-> TRUE, powerUps |-> <<>>, direction |-> NullDirection,
     totalGames |-> 0, bestScore |-> 0]

InitGameState ==
    [food |-> <<>>, otherPlayers |-> <<>>, powerUps |-> <<>>,
     isActive |-> FALSE, gameStats |-> EmptyStats]

NoPush == [x |-> 0, y |-> 0, money |-> 0, sent |-> FALSE]

Step(op, pre, seen, snap, consumed, repeat, push) ==
    [op |-> op, pre |-> pre, seen |-> seen, snap |-> snap,
     consumed |-> consumed, repeat |-> repeat, push |-> push, failed |-> FALSE,
     confirmed |-> <<>>, after |-> 0, calls |-> {}, stale |-> FALSE]

\* a gameAPI call as it leaves the client: the endpoint and its arguments
Call(api, gameId, playerId, ids) ==
    [api |-> api, gameId |-> gameId, playerId |-> playerId, ids |-> ids]

\* the step issued these gameAPI calls
Calling(step, calls) == [step EXCEPT !.calls = calls]

\* a step the properties do not look at
Idle(pl) == Step("idle", pl, NoSeen, NoSnapshot, {}, FALSE, NoPush)

\* a step of the given kind that records nothing else
Mark(op, pl) == [Idle(pl) EXCEPT !.op = op]

\* the step ran, or followed, a catch block
Failed(step) == [step EXCEPT !.failed = TRUE]



\* GameLobby.js: useState(playerName), the 500 ms timer, playerAPI.register calls
Lobby(playerName, armed) == [playerName |-> playerName, armed |-> armed, regs |-> <<>>]
NoLobby == Lobby("ann", FALSE)

\* GameUI: isProcessingPayment and the payment request awaited
NoRequest == [kind |-> "none", amount |-> 0]
Sidebar(copy) ==
    [copy |-> copy, isProcessingPayment |-> FALSE, request |-> NoRequest, inFlight |-> 0]

NoProbe == [m1 |-> 0, m2 |-> 0, size1 |-> 0, size2 |-> 0, speed1 |-> 0, speed2 |-> 0,
            measured |-> "no"]

\* everything but the player, the mounted sidebar and the probe
Fresh ==
    /\ gameStarted = FALSE
    /\ currentGameId = NoGame
    /\ gameState = InitGameState
    /\ sincePush = 0
    /\ passes = <<>>
    /\ pulls = <<>>
    /\ events = 0
    /\ detected = [i \in EntityIds |-> 0]
    /\ killed = [i \in RemoteIds |-> 0]
    /\ prevSnap = NoSnapshot
    /\ last = Idle(player)
    /\ pushes = 0
    /\ failures = 0
    /\ exits = <<>>
    /\ leaves = 0

Init ==
    /\ \E m \in InitMoney : player = InitPlayer(m)
    /\ lobby = NoLobby
    /\ ui = Sidebar("api")
    /\ probe = NoProbe
    /\ Fresh

----------------------------------------------------------------------------
(* GameCanvas.js: handleMouseMove *)

\* prev.direction ? prev.direction.c * (1 - SMOOTH_FACTOR) + c * SMOOTH_FACTOR : c
Smooth(prevDirection, old, new) ==
    IF prevDirection.null THEN new ELSE Quot(85 * old + 15 * new, 100)

handleMouseMove(prev, px, py, mouseX, mouseY) ==
    LET deltaX == mouseX - px
        deltaY == mouseY - py
        distance == Isqrt(deltaX * deltaX + deltaY * deltaY)
        directionX == Quot(100 * deltaX, distance)
        directionY == Quot(100 * deltaY, distance)
    IN  IF distance > 0
        THEN [prev EXCEPT !.direction =
                 [null |-> FALSE,
                  x |-> Smooth(prev.direction, prev.direction.x, directionX),
                  y |-> Smooth(prev.direction, prev.direction.y, directionY)]]
        ELSE prev

----------------------------------------------------------------------------
(* GameCanvas.js: gameLoop, the integration step *)

\* prev.direction.c *= -0.5
Bounce(c) == -Quot(c, 2)

\* one axis: move, then the two boundary tests in the order of the code
MoveAxis(pos, dir, isNull, speed, size, limit) ==
    LET moved == IF isNull THEN pos ELSE pos + Quot(dir * speed, 100)
        low   == moved < size
        p1    == IF low THEN size ELSE moved
        d1    == IF low /\ ~isNull THEN Bounce(dir) ELSE dir
        high  == p1 > limit - size
        p2    == IF high THEN limit - size ELSE p1
        d2    == IF high /\ ~isNull THEN Bounce(d1) ELSE d1
    IN  [pos |-> p2, dir |-> d2]

Integrate(prev) ==
    LET size  == calculateSize(prev.money)
        speed == Speed(size)
        d     == prev.direction
        ax    == MoveAxis(prev.x, d.x, d.null, speed, size, 10 * CANVAS_WIDTH)
        ay    == MoveAxis(prev.y, d.y, d.null, speed, size, 10 * CANVAS_HEIGHT)
    IN  [prev EXCEPT !.x = ax.pos, !.y = ay.pos,
                     !.direction = [null |-> d.null, x |-> ax.dir, y |-> ay.dir]]

----------------------------------------------------------------------------
(* GameCanvas.js: checkCollisions.  seen is what the callback closes over: *)
(* the rendered player and the rendered entity arrays.                     *)

Seen(pl, gs) ==
    [x |-> pl.x, y |-> pl.y, money |-> pl.money, food |-> gs.food,
     powerUps |-> gs.powerUps, otherPlayers |-> gs.otherPlayers]

FoodHit(seen, food) ==
    Within(seen.x, seen.y, food.x, food.y, calculateSize(seen.money) + 10 * FOOD_SIZE)

PowerUpHit(seen, powerUp) ==
    Within(seen.x, seen.y, powerUp.x, powerUp.y, calculateSize(seen.money) + powerUp.size)

OtherHit(seen, other) ==
    Within(seen.x, seen.y, other.x, other.y,
           calculateSize(seen.money) + calculateSize(other.money))

ConsumedFood(seen) == SelectSeq(seen.food, LAMBDA f : FoodHit(seen, f))
ConsumedPowerUps(seen) == SelectSeq(seen.powerUps, LAMBDA p : PowerUpHit(seen, p))

PointsEarned(seen) == SumValues(ConsumedFood(seen)) + SumValues(ConsumedPowerUps(seen))

\* consumedFoodIds.length > 0 && gameId  /  consumedPowerUpIds.length > 0 && gameId
AwaitsFood(seen, gameId) == ConsumedFood(seen) # <<>> /\ gameId # NoGame
AwaitsPowerUp(seen, gameId) == ConsumedPowerUps(seen) # <<>> /\ gameId # NoGame

\* faulty variant: the score is left out of the award
Award_noScore(prev, pointsEarned) ==
    IF pointsEarned > 0
    THEN [prev EXCEPT !.virtualMoney = @ + pointsEarned,
                      !.money = @ + pointsEarned]
    ELSE prev

\* if (pointsEarned > 0) setPlayer(prev => ...)
Award(prev, pointsEarned) ==
    IF pointsEarned > 0
    THEN [prev EXCEPT !.virtualMoney = @ + pointsEarned,
                      !.money = @ + pointsEarned,
                      !.score = @ + pointsEarned]
    ELSE prev

\* faulty variant: the 1.2 margin is dropped from both tests
Outcome_noMargin(playerSize, otherSize) ==
    IF playerSize > otherSize THEN "eat"
    ELSE IF otherSize > playerSize THEN "die"
    ELSE "none"

\* faulty variant: the second test repeats the first, so the larger player never wins
Outcome_sameTestTwice(playerSize, otherSize) ==
    IF 10 * playerSize > 12 * otherSize THEN "eat"
    ELSE IF 10 * playerSize > 12 * otherSize THEN "die"
    ELSE "none"

\* playerSize > otherSize * 1.2  /  otherSize > playerSize * 1.2
Outcome(playerSize, otherSize) ==
    IF 10 * playerSize > 12 * otherSize THEN "eat"
    ELSE IF 10 * otherSize > 12 * playerSize THEN "die"
    ELSE "none"

OutcomeFor(seen, other) ==
    IF OtherHit(seen, other)
    THEN Outcome(calculateSize(seen.money), calculateSize(other.money))
    ELSE "none"

Eat(prev, other) ==
    LET earnedMoney == EarnedMoney(other.money)
    IN  [prev EXCEPT !.virtualMoney = @ + earnedMoney,
                     !.money = @ + earnedMoney,
                     !.score = @ + earnedMoney,
                     !.kills = @ + 1]

Die(prev) == [prev EXCEPT !.isAlive = FALSE]

\* gameState.otherPlayers.forEach(...) : one setPlayer per outcome, in order
RECURSIVE ResolveOthers(_, _, _)
ResolveOthers(prev, seen, others) ==
    IF others = <<>> THEN prev
    ELSE LET o == Head(others)
             w == OutcomeFor(seen, o)
             next == IF w = "eat" THEN Eat(prev, o)
                     ELSE IF w = "die" THEN Die(prev)
                     ELSE prev
         IN  ResolveOthers(next, seen, Tail(others))

\* faulty variant: the award is added to the money the callback closed over,
\* setPlayer({...player, money: player.money + pointsEarned})
Finish_fromClosure(prev, seen) ==
    ResolveOthers([Award(prev, PointsEarned(seen))
                      EXCEPT !.money = seen.money + PointsEarned(seen)],
                  seen, seen.otherPlayers)

\* the part of checkCollisions after the last await
Finish(prev, seen) ==
    ResolveOthers(Award(prev, PointsEarned(seen)), seen, seen.otherPlayers)

Eaten(seen) == SelectSeq(seen.otherPlayers, LAMBDA o : OutcomeFor(seen, o) = "eat")

Bump(n) == Min(n + 1, 2)

RECURSIVE CountIds(_, _)
CountIds(count, ids) ==
    IF ids = <<>> THEN count
    ELSE CountIds([count EXCEPT ![Head(ids)] = Bump(@)], Tail(ids))

PlayerIds(s) == [i \in 1..Len(s) |-> s[i].playerId]

----------------------------------------------------------------------------
(* GameCanvas.js: updateGameStateFromServer, the setGameState updater *)

\* faulty variant: the local player's own entry is not filtered out
updateGameStateFromServer_noFilter(prev, serverGameState, playerId) ==
    [prev EXCEPT
        !.food = OrEmpty(serverGameState, "food", serverGameState.food),
        !.otherPlayers = OrEmpty(serverGameState, "players", serverGameState.players),
        !.powerUps = OrEmpty(serverGameState, "powerUps", serverGameState.powerUps),
        !.gameStats = IF "gameStats" \in serverGameState.missing
                      THEN EmptyStats ELSE serverGameState.gameStats]

\* faulty variant: the answer is appended to the arrays instead of replacing them
updateGameStateFromServer_appends(prev, serverGameState, playerId) ==
    [prev EXCEPT
        !.food = @ \o OrEmpty(serverGameState, "food", serverGameState.food),
        !.otherPlayers = @ \o SelectSeq(OrEmpty(serverGameState, "players",
                                                 serverGameState.players),
                                        LAMBDA p : p.playerId # playerId),
        !.powerUps = @ \o OrEmpty(serverGameState, "powerUps", serverGameState.powerUps),
        !.gameStats = IF "gameStats" \in serverGameState.missing
                      THEN EmptyStats ELSE serverGameState.gameStats]

\* faulty variant: the food is read from a key the answer does not have
updateGameStateFromServer_wrongKey(prev, serverGameState, playerId) ==
    [prev EXCEPT
        !.food = <<>>,
        !.otherPlayers = SelectSeq(OrEmpty(serverGameState, "players", serverGameState.players),
                                   LAMBDA p : p.playerId # playerId),
        !.powerUps = OrEmpty(serverGameState, "powerUps", serverGameState.powerUps),
        !.gameStats = IF "gameStats" \in serverGameState.missing
                      THEN EmptyStats ELSE serverGameState.gameStats]

\* faulty variant: the remote players are moved on from where the answer has them
updateGameStateFromServer_extrapolates(prev, serverGameState, playerId) ==
    LET others == SelectSeq(OrEmpty(serverGameState, "players", serverGameState.players),
                            LAMBDA p : p.playerId # playerId)
    IN  [prev EXCEPT
            !.food = OrEmpty(serverGameState, "food", serverGameState.food),
            !.otherPlayers = [k \in 1..Len(others) |-> [others[k] EXCEPT !.x = @ + 10]],
            !.powerUps = OrEmpty(serverGameState, "powerUps", serverGameState.powerUps),
            !.gameStats = IF "gameStats" \in serverGameState.missing
                          THEN EmptyStats ELSE serverGameState.gameStats]

updateGameStateFromServer(prev, serverGameState, playerId) ==
    [prev EXCEPT
        !.food = OrEmpty(serverGameState, "food", serverGameState.food),
        !.otherPlayers = SelectSeq(OrEmpty(serverGameState, "players", serverGameState.players),
                                   LAMBDA p : p.playerId # playerId),
        !.powerUps = OrEmpty(serverGameState, "powerUps", serverGameState.powerUps),
        !.gameStats = IF "gameStats" \in serverGameState.missing
                      THEN EmptyStats ELSE serverGameState.gameStats]

----------------------------------------------------------------------------
(* App.js: handleStartGame *)

\* the state set after createGame has answered with game
StartedGameState(prev, game, playerId) ==
    [prev EXCEPT
        !.isActive = TRUE,
        !.food = OrEmpty(game, "food", game.food),
        !.otherPlayers = SelectSeq(OrEmpty(game, "players", game.players),
                                   LAMBDA p : p.playerId # playerId),
        !.powerUps = OrEmpty(game, "powerUps", game.powerUps),
        !.gameStats = [playersOnline |-> IF "players" \in game.missing \/ game.players = <<>>
                                         THEN 1 ELSE Len(game.players),
                       foodItems |-> IF "food" \in game.missing THEN 0 ELSE Len(game.food)]]

StartedPlayer(prev) ==
    [prev EXCEPT !.isAlive = TRUE, !.score = 0, !.kills = 0,
                 !.x = 4000, !.y = 3000, !.powerUps = <<>>]

ResetCounts ==
    /\ detected' = [i \in EntityIds |-> 0]
    /\ killed' = [i \in RemoteIds |-> 0]

StartGame ==
    /\ ~gameStarted
    /\ player.id # NoId
    /\ \E id \in GameIds, game \in Snapshots :
          /\ currentGameId' = id
          /\ player' = StartedPlayer(player)
          /\ gameState' = StartedGameState(gameState, game, player.id)
          /\ prevSnap' = game
          /\ last' = Calling(Step("start", player, NoSeen, game, {}, FALSE, NoPush),
                              {Call("createGame", NoGame, player.id, <<>>)})
    /\ gameStarted' = TRUE
    /\ sincePush' = 0
    /\ failures' = 0
    /\ leaves' = 0
    /\ lobby' = [lobby EXCEPT !.armed = FALSE]
    /\ ResetCounts
    /\ UNCHANGED <<events, passes, pulls, pushes, exits, ui, probe>>

\* if (!player.id) { toast(...); return; }
StartGameUnregistered ==
    /\ ~gameStarted
    /\ player.id = NoId
    /\ last' = Failed(Mark("start", player))
    /\ UNCHANGED <<events, gameStarted, currentGameId, player, gameState, sincePush,
                   passes, pulls, detected, killed, prevSnap, pushes, failures,
                   exits, leaves, offCanvas>>

\* faulty variant: the game is marked started before createGame has answered
StartGameFails_startsAnyway ==
    /\ ~gameStarted
    /\ player.id # NoId
    /\ gameStarted' = TRUE
    /\ last' = Calling(Failed(Mark("start", player)),
                        {Call("createGame", NoGame, player.id, <<>>)})
    /\ UNCHANGED <<events, currentGameId, player, gameState, sincePush,
                   passes, pulls, detected, killed, prevSnap, pushes, failures,
                   exits, leaves, offCanvas>>

\* createGame throws: only a toast is shown
StartGameFails ==
    /\ ~gameStarted
    /\ player.id # NoId
    /\ last' = Calling(Failed(Mark("start", player)),
                        {Call("createGame", NoGame, player.id, <<>>)})
    /\ UNCHANGED <<events, gameStarted, currentGameId, player, gameState, sincePush,
                   passes, pulls, detected, killed, prevSnap, pushes, failures,
                   exits, leaves, offCanvas>>

----------------------------------------------------------------------------
(* GameCanvas.js: the mouse handler *)

MouseMove ==
    /\ gameStarted
    /\ events < MaxEvents
    /\ \E m \in MousePoints :
          player' = handleMouseMove(player, player.x, player.y, m[1], m[2])
    /\ events' = events + 1
    /\ last' = Idle(player')
    /\ UNCHANGED <<gameStarted, currentGameId, gameState, sincePush, passes, pulls,
                   detected, killed, prevSnap, pushes, failures, exits, leaves,
                   offCanvas>>

----------------------------------------------------------------------------
(* GameCanvas.js: gameLoop, one animation frame *)

\* if (now - lastPositionUpdate > POSITION_UPDATE_INTERVAL) sendPositionUpdate()
PushDue(elapsed) == elapsed > POSITION_UPDATE_INTERVAL

\* sendPositionUpdate: if (!gameId || !player.id) return
MayPush == currentGameId # NoGame /\ player.id # NoId

\* sendPositionUpdate: gameAPI.updatePosition(gameId, player.id, player.x, player.y, player.money)
Push(elapsed) ==
    IF PushDue(elapsed) /\ MayPush
    THEN [x |-> player.x, y |-> player.y, money |-> player.money, sent |-> TRUE]
    ELSE NoPush

\* setLastPositionUpdate(now)
SincePush(elapsed) == IF PushDue(elapsed) THEN 0 ELSE elapsed

\* the updatePosition requests awaited after the frame
Pushes(elapsed) ==
    IF PushDue(elapsed) /\ MayPush THEN Min(pushes + 1, MaxPushes) ELSE pushes

\* the updatePosition call of the frame, if it makes one
PushCalls(elapsed) ==
    IF PushDue(elapsed) /\ MayPush
    THEN {Call("updatePosition", currentGameId, player.id, <<>>)}
    ELSE {}

\* the consumption call checkCollisions makes before its first await
FirstCall(seen) ==
    IF AwaitsFood(seen, currentGameId)
    THEN Call("consumeFood", currentGameId, player.id, Ids(ConsumedFood(seen)))
    ELSE Call("consumePowerUp", currentGameId, player.id, Ids(ConsumedPowerUps(seen)))

\* a suspended checkCollisions call: what it scanned, the ids it sends
\* (consumedFoodIds, consumedPowerUpIds), the call it awaits
Pass(stage, seen) ==
    [stage |-> stage, seen |-> seen, failed |-> FALSE,
     gameId |-> currentGameId, playerId |-> player.id,
     consumedFoodIds |-> Ids(ConsumedFood(seen)),
     consumedPowerUpIds |-> Ids(ConsumedPowerUps(seen))]

\* if (!player.isAlive) return
TickDead ==
    /\ gameStarted
    /\ events < MaxEvents
    /\ ~player.isAlive
    /\ events' = events + 1
    /\ last' = Idle(player)
    /\ UNCHANGED <<gameStarted, currentGameId, player, gameState, sincePush, passes,
                   pulls, detected, killed, prevSnap, pushes, failures, exits,
                   leaves, offCanvas>>

\* a frame in which checkCollisions runs to its end without awaiting
TickSync(dt) ==
    LET seen == Seen(player, gameState)
    IN  /\ gameStarted
        /\ events < MaxEvents
        /\ player.isAlive
        /\ ~AwaitsFood(seen, currentGameId)
        /\ ~AwaitsPowerUp(seen, currentGameId)
        /\ player' = Finish(Integrate(player), seen)
        /\ sincePush' = SincePush(sincePush + dt)
        /\ pushes' = Pushes(sincePush + dt)
        /\ killed' = CountIds(killed, PlayerIds(Eaten(seen)))
        /\ events' = events + 1
        /\ last' = Calling(Step("tick", player, seen, NoSnapshot, {}, FALSE,
                                 Push(sincePush + dt)),
                            PushCalls(sincePush + dt))
        /\ UNCHANGED <<gameStarted, currentGameId, gameState, passes, pulls, detected,
                       prevSnap, failures, exits, leaves, offCanvas>>

\* a frame in which checkCollisions stops at await consumeFood / consumePowerUp,
\* while fewer than limit earlier calls are suspended
TickAsyncUpTo(dt, limit) ==
    LET seen == Seen(player, gameState)
    IN  /\ gameStarted
        /\ events < MaxEvents
        /\ Len(passes) < limit
        /\ player.isAlive
        /\ AwaitsFood(seen, currentGameId) \/ AwaitsPowerUp(seen, currentGameId)
        /\ player' = Integrate(player)
        /\ sincePush' = SincePush(sincePush + dt)
        /\ pushes' = Pushes(sincePush + dt)
        /\ passes' = Append(passes,
                        Pass(IF AwaitsFood(seen, currentGameId) THEN "food" ELSE "powerUp",
                             seen))
        /\ detected' = CountIds(detected, Ids(ConsumedFood(seen)) \o Ids(ConsumedPowerUps(seen)))
        /\ events' = events + 1
        /\ last' = Calling(Step("tickAsync", player, seen, NoSnapshot, {}, FALSE,
                                 Push(sincePush + dt)),
                            PushCalls(sincePush + dt) \cup {FirstCall(seen)})
        /\ UNCHANGED <<gameStarted, currentGameId, gameState, pulls, killed, prevSnap,
                       failures, exits, leaves, offCanvas>>

\* await gameAPI.updatePosition(...) resolves: nothing follows it
PushReturns ==
    /\ pushes > 0
    /\ pushes' = pushes - 1
    /\ last' = Idle(player)
    /\ UNCHANGED <<events, gameStarted, currentGameId, player, gameState, sincePush,
                   passes, pulls, detected, killed, prevSnap, failures, exits,
                   leaves, offCanvas>>

\* await gameAPI.updatePosition(...) throws: the error is logged
PushFails ==
    /\ pushes > 0
    /\ pushes' = pushes - 1
    /\ last' = Failed(Mark("push", player))
    /\ UNCHANGED <<events, gameStarted, currentGameId, player, gameState, sincePush,
                   passes, pulls, detected, killed, prevSnap, failures, exits,
                   leaves, offCanvas>>

RemoveAt(s, i) == SubSeq(s, 1, i - 1) \o SubSeq(s, i + 1, Len(s))

\* the rest of checkCollisions, run when its last await has settled; failed
\* says that the call threw, confirmed is result.consumedPowerUps
Resume(i, prev, failed, confirmed) ==
    LET seen == passes[i].seen
        step == [Step("resolve", player, seen, NoSnapshot, {}, FALSE, NoPush)
                    EXCEPT !.confirmed = confirmed]
    IN  /\ player' = Finish(prev, seen)
        /\ passes' = RemoveAt(passes, i)
        /\ killed' = CountIds(killed, PlayerIds(Eaten(seen)))
        /\ last' = IF failed \/ passes[i].failed THEN Failed(step) ELSE step
        /\ UNCHANGED <<events, gameStarted, currentGameId, gameState, sincePush, pulls,
                       detected, prevSnap, pushes, failures, exits, leaves, offCanvas>>

\* the consumePowerUp call that follows the settled consumeFood call
ThenPowerUp(i, failed) ==
    /\ i \in 1..Len(passes)
    /\ passes[i].stage = "food"
    /\ AwaitsPowerUp(passes[i].seen, currentGameId)
    /\ passes' = [passes EXCEPT ![i].stage = "powerUp", ![i].failed = failed]
    /\ last' = Calling(IF failed THEN Failed(Mark("notify", player))
                        ELSE Mark("notified", player),
                        {Call("consumePowerUp", passes[i].gameId, passes[i].playerId,
                              passes[i].consumedPowerUpIds)})
    /\ UNCHANGED <<events, gameStarted, currentGameId, player, gameState, sincePush,
                   pulls, detected, killed, prevSnap, pushes, failures, exits,
                   leaves, offCanvas>>

\* await gameAPI.consumeFood(...) resolves and a consumePowerUp call follows
ConsumeFoodReturnsThenPowerUp(i) == ThenPowerUp(i, FALSE)

\* await gameAPI.consumeFood(...) throws, is caught, and a consumePowerUp call follows
ConsumeFoodFailsThenPowerUp(i) == ThenPowerUp(i, TRUE)

\* await gameAPI.consumeFood(...) resolves and no power-up was hit
ConsumeFoodReturns(i) ==
    /\ i \in 1..Len(passes)
    /\ passes[i].stage = "food"
    /\ ~AwaitsPowerUp(passes[i].seen, currentGameId)
    /\ Resume(i, player, FALSE, <<>>)

\* faulty variant: the catch block ends the pass, the award is never made
ConsumeFoodFails_skipsAward(i) ==
    /\ i \in 1..Len(passes)
    /\ passes[i].stage = "food"
    /\ ~AwaitsPowerUp(passes[i].seen, currentGameId)
    /\ passes' = RemoveAt(passes, i)
    /\ last' = Failed(Step("resolve", player, passes[i].seen, NoSnapshot, {}, FALSE, NoPush))
    /\ UNCHANGED <<events, gameStarted, currentGameId, player, gameState, sincePush,
                   pulls, detected, killed, prevSnap, pushes, failures, exits,
                   leaves, offCanvas>>

\* await gameAPI.consumeFood(...) throws and no power-up was hit
ConsumeFoodFails(i) ==
    /\ i \in 1..Len(passes)
    /\ passes[i].stage = "food"
    /\ ~AwaitsPowerUp(passes[i].seen, currentGameId)
    /\ Resume(i, player, TRUE, <<>>)

\* result.consumedPowerUps.map(p => ({ ...p, duration: 10000 }))
Effects(powerUps) ==
    [k \in 1..Len(powerUps) |-> [id |-> powerUps[k].id, duration |-> POWERUP_DURATION]]

\* what the server can answer as result.consumedPowerUps: any part of the
\* power-ups it was asked for (an answer without the field adds as little as
\* the empty list)
Results(requested) ==
    { SelectSeq(requested, LAMBDA p : p.id \in K) : K \in SUBSET SeqToSet(Ids(requested)) }

\* await gameAPI.consumePowerUp(...) resolves with result
ConsumePowerUpReturns(i) ==
    /\ i \in 1..Len(passes)
    /\ passes[i].stage = "powerUp"
    /\ \E result \in Results(ConsumedPowerUps(passes[i].seen)) :
          Resume(i, [player EXCEPT !.powerUps = @ \o Effects(result)], FALSE, result)

\* faulty variant: the effect is granted although the call threw
ConsumePowerUpFails_grantsEffect(i) ==
    /\ i \in 1..Len(passes)
    /\ passes[i].stage = "powerUp"
    /\ Resume(i, [player EXCEPT !.powerUps = @ \o Effects(ConsumedPowerUps(passes[i].seen))],
              TRUE, <<>>)

\* await gameAPI.consumePowerUp(...) throws
ConsumePowerUpFails(i) ==
    /\ i \in 1..Len(passes)
    /\ passes[i].stage = "powerUp"
    /\ Resume(i, player, TRUE, <<>>)

TickAsync(dt) == TickAsyncUpTo(dt, MaxPasses)

\* the same frame when the frames outrun the network
TickOverlapping(dt) == TickAsyncUpTo(dt, MaxOverlap)

----------------------------------------------------------------------------
(* GameCanvas.js: the one-second pull *)

\* setInterval fires: updateGameStateFromServer is called and awaits
updateTimer ==
    /\ gameStarted
    /\ currentGameId # NoGame
    /\ pulls' = Append(pulls, [gameId |-> currentGameId, playerId |-> player.id,
                                overtaken |-> FALSE])
    /\ last' = Calling(Mark("issue", player),
                        {Call("getGameState", currentGameId, NoId, <<>>)})
    /\ UNCHANGED <<gameStarted, currentGameId, player, gameState, sincePush, passes,
                   detected, killed, prevSnap, pushes, failures, exits, leaves,
                   offCanvas>>

IssuePull ==
    /\ events < MaxEvents
    /\ events' = events + 1
    /\ updateTimer

Consumed ==
    {i \in EntityIds : detected[i] > 0} \cup {i \in RemoteIds : killed[i] > 0}

\* the calls issued before call i, still awaited when call i is answered
Overtake(calls, i) ==
    [j \in 1..Len(calls) |-> IF j < i THEN [calls[j] EXCEPT !.overtaken = TRUE]
                                      ELSE calls[j]]

\* getGameState resolves: the snapshot replaces the world
PullReturns(i) ==
    /\ i \in 1..Len(pulls)
    /\ \E serverGameState \in Snapshots :
          /\ gameState' = updateGameStateFromServer(gameState, serverGameState,
                                                    pulls[i].playerId)
          /\ prevSnap' = serverGameState
          /\ last' = [Step("apply", player, NoSeen, serverGameState, Consumed,
                           last.op = "apply" /\ serverGameState = last.snap, NoPush)
                         EXCEPT !.after = failures, !.stale = pulls[i].overtaken]
    /\ pulls' = RemoveAt(Overtake(pulls, i), i)
    /\ failures' = 0
    /\ ResetCounts
    /\ UNCHANGED <<events, gameStarted, currentGameId, player, sincePush, passes,
                   pushes, exits, leaves, offCanvas>>

\* faulty variant: a failed pull ends the session
PullFails_endsSession(i) ==
    /\ i \in 1..Len(pulls)
    /\ pulls' = RemoveAt(pulls, i)
    /\ failures' = Min(failures + 1, MaxFailures)
    /\ gameStarted' = FALSE
    /\ currentGameId' = NoGame
    /\ last' = Failed(Mark("pull", player))
    /\ UNCHANGED <<events, player, gameState, sincePush, passes, detected, killed,
                   prevSnap, pushes, exits, leaves, offCanvas>>

\* faulty variant: a failed pull empties the world
PullFails_clearsWorld(i) ==
    /\ i \in 1..Len(pulls)
    /\ pulls' = RemoveAt(pulls, i)
    /\ failures' = Min(failures + 1, MaxFailures)
    /\ gameState' = InitGameState
    /\ last' = Failed(Mark("pull", player))
    /\ UNCHANGED <<events, gameStarted, currentGameId, player, sincePush, passes,
                   detected, killed, prevSnap, pushes, exits, leaves, offCanvas>>

\* faulty variant: the catch block calls getGameState again at once
PullFails_retries(i) ==
    /\ i \in 1..Len(pulls)
    /\ pulls' = Append(RemoveAt(pulls, i), pulls[i])
    /\ failures' = Min(failures + 1, MaxFailures)
    /\ last' = Calling(Failed(Mark("pull", player)),
                        {Call("getGameState", pulls[i].gameId, NoId, <<>>)})
    /\ UNCHANGED <<events, gameStarted, currentGameId, player, gameState, sincePush,
                   passes, detected, killed, prevSnap, pushes, exits, leaves,
                   offCanvas>>

\* getGameState throws: the error is logged
PullFails(i) ==
    /\ i \in 1..Len(pulls)
    /\ pulls' = RemoveAt(pulls, i)
    /\ failures' = Min(failures + 1, MaxFailures)
    /\ last' = Failed(Mark("pull", player))
    /\ UNCHANGED <<events, gameStarted, currentGameId, player, gameState, sincePush,
                   passes, detected, killed, prevSnap, pushes, exits, leaves,
                   offCanvas>>

----------------------------------------------------------------------------
(* App.js: handleBackToLobby; GameCanvas.js: handleGameOver *)

Exit(kind, stage) ==
    [kind |-> kind, stage |-> stage, gameId |-> currentGameId, playerId |-> player.id]

\* setGameStarted(false); setCurrentGameId(null): GameCanvas unmounts and
\* GameLobby mounts, with playerName = player.name and its timer set
Unmount ==
    /\ gameStarted' = FALSE
    /\ currentGameId' = NoGame
    /\ lobby' = IF gameStarted
                THEN [lobby EXCEPT !.playerName = player.name, !.armed = TRUE]
                ELSE lobby

\* setPlayer(prev => ...) of handleBackToLobby
LobbyPlayer(prev) ==
    [prev EXCEPT !.totalGames = @ + 1, !.bestScore = Max(@, prev.score),
                 !.isAlive = TRUE, !.score = 0, !.kills = 0, !.x = 4000, !.y = 3000]

\* the Back to Lobby button: the handler runs up to its first await
BackToLobby ==
    /\ gameStarted
    /\ events < MaxEvents
    /\ Len(exits) < MaxExits
    /\ events' = events + 1
    /\ last' = Mark("exit", player)
    /\ IF currentGameId # NoGame /\ player.id # NoId /\ (player.score > 0 \/ player.kills > 0)
       THEN /\ exits' = Append(exits, Exit("lobby", "stats"))
            /\ UNCHANGED <<gameStarted, currentGameId, player, gameState, leaves, lobby>>
       ELSE IF currentGameId # NoGame /\ player.id # NoId
       THEN /\ exits' = Append(exits, Exit("lobby", "leave"))
            /\ leaves' = leaves + 1
            /\ UNCHANGED <<gameStarted, currentGameId, player, gameState, lobby>>
       ELSE /\ Unmount
            /\ player' = LobbyPlayer(player)
            /\ gameState' = InitGameState
            /\ UNCHANGED <<exits, leaves>>
    /\ UNCHANGED <<sincePush, passes, pulls, detected, killed, prevSnap, pushes,
                   failures, ui, probe>>

\* await playerAPI.updateStats(...) resolves: gameAPI.leaveGame is called
UpdateStatsReturns(i) ==
    /\ i \in 1..Len(exits)
    /\ exits[i].stage = "stats"
    /\ exits' = [exits EXCEPT ![i].stage = "leave"]
    /\ leaves' = leaves + 1
    /\ last' = Mark("leave", player)
    /\ UNCHANGED <<events, gameStarted, currentGameId, player, gameState, sincePush,
                   passes, pulls, detected, killed, prevSnap, pushes, failures,
                   offCanvas>>

\* faulty variant: the catch block clears the game id only
Caught_idOnly(i) ==
    /\ currentGameId' = NoGame
    /\ exits' = RemoveAt(exits, i)
    /\ last' = Failed(Mark("ended", player))
    /\ UNCHANGED <<events, gameStarted, player, gameState, sincePush, passes, pulls,
                   detected, killed, prevSnap, pushes, failures, leaves, lobby, ui,
                   probe>>

\* the catch block of handleBackToLobby
Caught(i) ==
    /\ Unmount
    /\ exits' = RemoveAt(exits, i)
    /\ last' = Failed(Mark("ended", player))
    /\ UNCHANGED <<events, player, gameState, sincePush, passes, pulls, detected,
                   killed, prevSnap, pushes, failures, leaves, ui, probe>>

\* await playerAPI.updateStats(...) throws
UpdateStatsFails(i) ==
    /\ i \in 1..Len(exits)
    /\ exits[i].stage = "stats"
    /\ Caught(i)

\* await gameAPI.leaveGame(...) of handleBackToLobby resolves
LeaveReturns(i) ==
    /\ i \in 1..Len(exits)
    /\ exits[i].kind = "lobby"
    /\ exits[i].stage = "leave"
    /\ Unmount
    /\ player' = LobbyPlayer(player)
    /\ gameState' = InitGameState
    /\ exits' = RemoveAt(exits, i)
    /\ last' = Mark("ended", player)
    /\ UNCHANGED <<events, sincePush, passes, pulls, detected, killed, prevSnap,
                   pushes, failures, leaves, ui, probe>>

\* await gameAPI.leaveGame(...) of handleBackToLobby throws
LeaveFails(i) ==
    /\ i \in 1..Len(exits)
    /\ exits[i].kind = "lobby"
    /\ exits[i].stage = "leave"
    /\ Caught(i)

\* App.js: useState defaults of player
AppPlayer == [InitPlayer(100) EXCEPT !.id = NoId, !.name = ""]

\* window.location.reload(): the page starts again
Reload(failed) ==
    /\ gameStarted' = FALSE
    /\ currentGameId' = NoGame
    /\ player' = AppPlayer
    /\ gameState' = InitGameState
    /\ sincePush' = 0
    /\ passes' = <<>>
    /\ pulls' = <<>>
    /\ pushes' = 0
    /\ exits' = <<>>
    /\ failures' = 0
    /\ prevSnap' = NoSnapshot
    /\ lobby' = Lobby("", TRUE)
    /\ ui' = Sidebar(ui.copy)
    /\ ResetCounts
    /\ last' = IF failed THEN Failed(Mark("ended", player)) ELSE Mark("ended", player)
    /\ UNCHANGED <<events, leaves, probe>>

\* the Play Again button of the Game Over card
GameOver ==
    /\ gameStarted
    /\ ~player.isAlive
    /\ events < MaxEvents
    /\ Len(exits) < MaxExits
    /\ IF currentGameId # NoGame /\ player.id # NoId
       THEN /\ exits' = Append(exits, Exit("reload", "leave"))
            /\ leaves' = leaves + 1
            /\ events' = events + 1
            /\ last' = Mark("leave", player)
            /\ UNCHANGED <<gameStarted, currentGameId, player, gameState, sincePush,
                           passes, pulls, detected, killed, prevSnap, pushes,
                           failures, offCanvas>>
       ELSE /\ Reload(FALSE)
            /\ events' = events + 1

\* await gameAPI.leaveGame(...) of handleGameOver resolves
GameOverLeaveReturns(i) ==
    /\ i \in 1..Len(exits)
    /\ exits[i].kind = "reload"
    /\ Reload(FALSE)

\* await gameAPI.leaveGame(...) of handleGameOver throws and is caught
GameOverLeaveFails(i) ==
    /\ i \in 1..Len(exits)
    /\ exits[i].kind = "reload"
    /\ Reload(TRUE)

----------------------------------------------------------------------------

(* GameLobby.js: the name field and the registration effect *)

Names == {"ann", "bob"}

\* ids the server can answer a registration with
RegIds == {LocalId, "m2"}

\* App.js and GameLobby.js just mounted: no player id, the effect's timer set
InitLobby ==
    /\ player = AppPlayer
    /\ lobby = Lobby("", TRUE)
    /\ ui = Sidebar("api")
    /\ probe = NoProbe
    /\ Fresh

\* onChange of the name input: the effect is run again, its timer set anew
TypeName(n) ==
    /\ ~gameStarted
    /\ events < MaxEvents
    /\ n # lobby.playerName
    /\ events' = events + 1
    /\ lobby' = [lobby EXCEPT !.playerName = n, !.armed = TRUE]
    /\ last' = Idle(player)
    /\ UNCHANGED <<gameStarted, currentGameId, player, gameState, sincePush, passes,
                   pulls, detected, killed, prevSnap, pushes, failures, exits,
                   leaves, ui, probe>>

\* playerName.trim().length >= 3 && !player.id
MayRegister == lobby.playerName \in Names /\ player.id = NoId

\* the 500 ms timer fires: registerPlayer runs up to its await
RegisterTimer ==
    /\ ~gameStarted
    /\ lobby.armed
    /\ Len(lobby.regs) < MaxRegs
    /\ lobby' = [lobby EXCEPT !.armed = FALSE,
                              !.regs = IF MayRegister
                                       THEN Append(@, [name |-> lobby.playerName])
                                       ELSE @]
    /\ last' = Idle(player)
    /\ UNCHANGED <<events, gameStarted, currentGameId, player, gameState, sincePush,
                   passes, pulls, detected, killed, prevSnap, pushes, failures,
                   exits, leaves, ui, probe>>

\* setPlayer(prev => ({ ...prev, id: registeredPlayer.id, ... }))
Registered(prev, id, name) ==
    [prev EXCEPT !.id = id, !.name = name, !.virtualMoney = 250, !.realMoney = 0,
                 !.totalGames = 0, !.bestScore = 0]

\* await playerAPI.register(...) resolves; a changed player.id runs the
\* effect of a mounted lobby again
RegisterReturns(i) ==
    /\ i \in 1..Len(lobby.regs)
    /\ \E id \in RegIds :
          /\ player' = Registered(player, id, lobby.regs[i].name)
          /\ lobby' = [lobby EXCEPT !.regs = RemoveAt(@, i),
                                    !.armed = IF ~gameStarted /\ id # player.id
                                              THEN TRUE ELSE @]
    /\ last' = Mark("registered", player)
    /\ UNCHANGED <<events, gameStarted, currentGameId, gameState, sincePush, passes,
                   pulls, detected, killed, prevSnap, pushes, failures, exits,
                   leaves, ui, probe>>

\* await playerAPI.register(...) throws: the error is logged
RegisterFails(i) ==
    /\ i \in 1..Len(lobby.regs)
    /\ lobby' = [lobby EXCEPT !.regs = RemoveAt(@, i)]
    /\ last' = Failed(Mark("register", player))
    /\ UNCHANGED <<events, gameStarted, currentGameId, player, gameState, sincePush,
                   passes, pulls, detected, killed, prevSnap, pushes, failures,
                   exits, leaves, ui, probe>>

----------------------------------------------------------------------------
(* GameUI: the sidebar's Add Money and Withdraw buttons.  Two copies of    *)
(* the component exist; the build mounts one of them.  PaymentModal is the *)
(* lobby's own component with the same buttons and a flag of its own.      *)

Copies == {"mock", "api", "modal"}

\* the amounts of the payment modal's buttons that are tried
AddAmounts == {10, 500}

\* onClick={() => handleWithdraw(100)}
WithdrawAmount == 100

InitUI ==
    /\ player = InitPlayer(100)
    /\ lobby = NoLobby
    /\ \E copy \in Copies : ui = Sidebar(copy)
    /\ probe = NoProbe
    /\ Fresh

\* the variables the sidebar never writes (it writes player and ui)
besideUI == <<gameStarted, currentGameId, gameState, sincePush, passes, pulls,
              detected, killed, prevSnap, pushes, failures, exits, leaves, lobby,
              probe>>

\* GameUI is rendered in a game, PaymentModal by GameLobby
Mounted == IF ui.copy = "modal" THEN ~gameStarted ELSE gameStarted

Click ==
    /\ Mounted
    /\ events < MaxEvents
    /\ events' = events + 1

\* mock copy: handleAddMoney
handleAddMoneyMock(amount) ==
    /\ Click
    /\ ui.copy = "mock"
    /\ player' = [player EXCEPT !.realMoney = @ + amount, !.money = @ + amount]
    /\ last' = Mark("addMoney", player)
    /\ UNCHANGED <<ui, besideUI>>

\* faulty variant: the balance is not looked at
Affordable_always(amount) == amount > 0

\* if (player.virtualMoney < amount) { toast(...); return; }
Affordable(amount) == ~(player.virtualMoney < amount)

\* mock copy: handleWithdraw; realMoney gains amount * 0.9
handleWithdrawMock(amount) ==
    /\ Click
    /\ ui.copy = "mock"
    /\ player' = IF Affordable(amount)
                 THEN [player EXCEPT !.virtualMoney = @ - amount,
                                     !.realMoney = @ + (9 * amount) \div 10,
                                     !.money = @ - amount]
                 ELSE player
    /\ last' = Mark("withdraw", player)
    /\ UNCHANGED <<ui, besideUI>>

\* faulty variant: the flag is not looked at
MayPay_ignoresFlag == player.id # NoId

\* if (isProcessingPayment || !player.id) return
MayPay == ~ui.isProcessingPayment /\ player.id # NoId

\* setIsProcessingPayment(true) and the request that leaves the client
Awaiting(kind, amount) ==
    [ui EXCEPT !.isProcessingPayment = TRUE,
               !.request = [kind |-> kind, amount |-> amount],
               !.inFlight = @ + 1]

\* the finally block
Settled == [ui EXCEPT !.isProcessingPayment = FALSE, !.request = NoRequest,
                      !.inFlight = @ - 1]

\* api copy: handleAddMoney up to await paymentAPI.addMoney
handleAddMoney(amount) ==
    /\ Click
    /\ ui.copy = "api"
    /\ ui' = IF MayPay THEN Awaiting("addMoney", amount) ELSE ui
    /\ last' = Mark(IF MayPay THEN "pay" ELSE "ignored", player)
    /\ UNCHANGED <<player, besideUI>>

\* PaymentModal: handleAddMoney up to await paymentAPI.addMoney
handleAddMoneyModal(amount) ==
    /\ Click
    /\ ui.copy = "modal"
    /\ ui' = IF MayPay THEN Awaiting("addMoney", amount) ELSE ui
    /\ last' = Mark(IF MayPay THEN "pay" ELSE "ignored", player)
    /\ UNCHANGED <<player, besideUI>>

\* paymentAPI.addMoney resolves: with result.success the money is added and
\* playerAPI.getPlayer is awaited
AddMoneyReturns ==
    /\ ui.request.kind = "addMoney"
    /\ \E success \in BOOLEAN :
          IF success
          THEN /\ player' = [player EXCEPT !.realMoney = @ + ui.request.amount,
                                           !.money = @ + ui.request.amount]
               /\ ui' = IF ui.copy = "modal" THEN Settled
                        ELSE [ui EXCEPT !.request.kind = "getPlayer"]
               /\ last' = Mark("addMoney", player)
          ELSE /\ ui' = Settled
               /\ last' = Mark("refused", player)
               /\ UNCHANGED player
    /\ UNCHANGED <<events, besideUI>>

\* what the server holds for the player: realMoney, virtualMoney
Wallets == { [realMoney |-> 0, virtualMoney |-> 250],
             [realMoney |-> 500, virtualMoney |-> 150] }

\* playerAPI.getPlayer resolves
GetPlayerReturns ==
    /\ ui.request.kind = "getPlayer"
    /\ \E updatedPlayer \in Wallets :
          player' = [player EXCEPT !.realMoney = updatedPlayer.realMoney,
                                   !.virtualMoney = updatedPlayer.virtualMoney]
    /\ ui' = Settled
    /\ last' = Idle(player')
    /\ UNCHANGED <<events, besideUI>>

\* paymentAPI.addMoney, playerAPI.getPlayer or paymentAPI.withdraw throws
PaymentFails ==
    /\ ui.request.kind # "none"
    /\ ui' = Settled
    /\ last' = Failed(Mark("payment", player))
    /\ UNCHANGED <<events, player, besideUI>>

\* api copy: handleWithdraw up to await paymentAPI.withdraw
handleWithdraw(amount) ==
    /\ Click
    /\ ui.copy = "api"
    /\ ui' = IF MayPay /\ Affordable(amount) THEN Awaiting("withdraw", amount) ELSE ui
    /\ last' = Mark(IF ~MayPay THEN "ignored"
                    ELSE IF Affordable(amount) THEN "pay" ELSE "short", player)
    /\ UNCHANGED <<player, besideUI>>

\* paymentAPI.withdraw resolves; result.amount is the amount less the fee
WithdrawReturns ==
    /\ ui.request.kind = "withdraw"
    /\ \E success \in BOOLEAN :
          LET amount == ui.request.amount
              paid   == (9 * amount) \div 10
          IN  /\ player' = IF success
                           THEN [player EXCEPT
                                    !.virtualMoney = @ - amount,
                                    !.realMoney = @ + paid,
                                    !.money = (player.virtualMoney - amount)
                                              + player.realMoney + paid]
                           ELSE player
              /\ last' = IF success THEN Mark("withdraw", player)
                         ELSE Mark("refused", player)
    /\ ui' = Settled
    /\ UNCHANGED <<events, besideUI>>

----------------------------------------------------------------------------
(* The sizing law on its own: calculateSize of GameCanvas.js and of the    *)
(* offline copy of the engine                                              *)

MIN_SIZE_offline == 10

\* MIN_SIZE + Math.sqrt(money / 10) with the offline copy's MIN_SIZE
calculateSize_offline(money) == 10 * MIN_SIZE_offline + Isqrt(10 * money)

MOVE_SPEED_offline == 3

\* Math.max(MOVE_SPEED - size * 0.05, 1), in tenths of a pixel per tick
Speed_offline(size) == Max(10 * MOVE_SPEED_offline - Quot(5 * size, 100), 10)

\* masses the law is tried on: every small one, and some large ones
Masses == 0..MaxMass \cup {829440, 829441, 850000}

InitSize ==
    /\ player = InitPlayer(100)
    /\ lobby = NoLobby
    /\ ui = Sidebar("api")
    /\ \E m1, m2 \in Masses : probe = [NoProbe EXCEPT !.m1 = m1, !.m2 = m2]
    /\ Fresh

Measure ==
    /\ probe.measured = "no"
    /\ probe' = [probe EXCEPT !.size1 = calculateSize(probe.m1),
                              !.size2 = calculateSize(probe.m2),
                              !.speed1 = Speed(calculateSize(probe.m1)),
                              !.speed2 = Speed(calculateSize(probe.m2)),
                              !.measured = "online"]

MeasureOffline ==
    /\ probe.measured = "no"
    /\ probe' = [probe EXCEPT !.size1 = calculateSize_offline(probe.m1),
                              !.size2 = calculateSize_offline(probe.m2),
                              !.speed1 = Speed_offline(calculateSize_offline(probe.m1)),
                              !.speed2 = Speed_offline(calculateSize_offline(probe.m2)),
                              !.measured = "offline"]

besideProbe == <<gameStarted, currentGameId, player, gameState, sincePush, passes,
                 pulls, events, detected, killed, prevSnap, last, pushes, failures,
                 exits, leaves, lobby, ui>>

----------------------------------------------------------------------------
(* The offline copy of the engine (GameCanvas of src/unnamed/part_001):    *)
(* no remote source; the canvas generates the world, moves the other       *)
(* players itself and removes what the local player eats.  Its power-ups   *)
(* live in the canvas (useState powerUps); the model keeps them in         *)
(* gameState.powerUps.                                                     *)

FOOD_SIZE_offline == 3

\* Math.max(size, Math.min(limit - size, v))
Clamp(v, size, limit) == Max(size, Min(limit - size, v))

\* the setPlayer updater of the offline gameLoop
Integrate_offline(prev) ==
    LET size  == calculateSize_offline(prev.money)
        speed == Speed_offline(size)
        d     == prev.direction
        newX  == IF d.null THEN prev.x ELSE prev.x + Quot(d.x * speed, 100)
        newY  == IF d.null THEN prev.y ELSE prev.y + Quot(d.y * speed, 100)
    IN  [prev EXCEPT !.x = Clamp(newX, size, 10 * CANVAS_WIDTH),
                     !.y = Clamp(newY, size, 10 * CANVAS_HEIGHT)]

\* direction: { x: deltaX / distance, y: deltaY / distance }
handleMouseMove_offline(prev, px, py, mouseX, mouseY) ==
    LET deltaX == mouseX - px
        deltaY == mouseY - py
        distance == Isqrt(deltaX * deltaX + deltaY * deltaY)
    IN  IF distance > 0
        THEN [prev EXCEPT !.direction = [null |-> FALSE,
                                         x |-> Quot(100 * deltaX, distance),
                                         y |-> Quot(100 * deltaY, distance)]]
        ELSE prev

FoodHit_offline(seen, food) ==
    Within(seen.x, seen.y, food.x, food.y,
           calculateSize_offline(seen.money) + 10 * FOOD_SIZE_offline)

PowerUpHit_offline(seen, powerUp) ==
    Within(seen.x, seen.y, powerUp.x, powerUp.y,
           calculateSize_offline(seen.money) + powerUp.size)

OutcomeFor_offline(seen, other) ==
    IF Within(seen.x, seen.y, other.x, other.y,
              calculateSize_offline(seen.money) + calculateSize_offline(other.money))
    THEN Outcome(calculateSize_offline(seen.money), calculateSize_offline(other.money))
    ELSE "none"

\* gameState.food.filter(...): one setPlayer for every food hit
RECURSIVE EatFood_offline(_, _, _)
EatFood_offline(prev, seen, food) ==
    IF food = <<>> THEN prev
    ELSE LET f == Head(food)
             next == IF FoodHit_offline(seen, f)
                     THEN [prev EXCEPT !.virtualMoney = @ + f.value,
                                       !.money = @ + f.value,
                                       !.score = @ + f.value]
                     ELSE prev
         IN  EatFood_offline(next, seen, Tail(food))

\* powerUps.filter(...): one setPlayer for every power-up hit
RECURSIVE TakePowerUps_offline(_, _, _)
TakePowerUps_offline(prev, seen, powerUps) ==
    IF powerUps = <<>> THEN prev
    ELSE LET p == Head(powerUps)
             next == IF PowerUpHit_offline(seen, p)
                     THEN [prev EXCEPT !.powerUps = @ \o Effects(<<p>>),
                                       !.virtualMoney = @ + p.value,
                                       !.money = @ + p.value]
                     ELSE prev
         IN  TakePowerUps_offline(next, seen, Tail(powerUps))

\* gameState.otherPlayers.filter(...): one setPlayer for every outcome
RECURSIVE ResolveOthers_offline(_, _, _)
ResolveOthers_offline(prev, seen, others) ==
    IF others = <<>> THEN prev
    ELSE LET o == Head(others)
             w == OutcomeFor_offline(seen, o)
             next == IF w = "eat" THEN Eat(prev, o)
                     ELSE IF w = "die" THEN Die(prev)
                     ELSE prev
         IN  ResolveOthers_offline(next, seen, Tail(others))

\* what checkCollisions of the offline copy makes of the player
checkCollisions_offline(prev, seen) ==
    ResolveOthers_offline(
        TakePowerUps_offline(EatFood_offline(prev, seen, seen.food), seen, seen.powerUps),
        seen, seen.otherPlayers)

\* newFood, newPowerUps, updatedOtherPlayers
NewFood(seen) == SelectSeq(seen.food, LAMBDA f : ~FoodHit_offline(seen, f))
NewPowerUps(seen) == SelectSeq(seen.powerUps, LAMBDA p : ~PowerUpHit_offline(seen, p))
UpdatedOtherPlayers(seen) ==
    SelectSeq(seen.otherPlayers, LAMBDA o : OutcomeFor_offline(seen, o) # "eat")

\* (Math.random() - 0.5) * speed on each axis: the random step of the other
\* players in one frame
Drifts == { <<0, 0>>, <<5, -5>> }

\* otherPlayers.map(...): the random step, clamped to the canvas
MoveOthers(others, drift) ==
    [k \in 1..Len(others) |->
        [others[k] EXCEPT
            !.x = Clamp(@ + drift[1], calculateSize_offline(others[k].money),
                        10 * CANVAS_WIDTH),
            !.y = Clamp(@ + drift[2], calculateSize_offline(others[k].money),
                        10 * CANVAS_HEIGHT)]]

\* mockData.generateFood(1, ...)[0] when Math.random() < 0.1, or no new food
Food3 == [id |-> "f3", x |-> 1000, y |-> 1000, value |-> 1]
Spawns == { <<>>, <<Food3>> }

\* what mockData.generateFood / generatePlayers / generatePowerUps can return
OfflineWorlds ==
    { [food |-> <<Food1, Food2>>, otherPlayers |-> <<Small, Close>>, powerUps |-> <<PowerUp1>>],
      [food |-> <<Food1>>, otherPlayers |-> <<Small>>, powerUps |-> <<>>],
      [food |-> <<Food2>>, otherPlayers |-> <<>>, powerUps |-> <<PowerUp1>>] }

\* the offline canvas just mounted: the player as App.js holds it, no game id
InitOffline ==
    /\ \E m \in InitMoney : player = InitPlayer(m)
    /\ gameStarted = TRUE
    /\ currentGameId = NoGame
    /\ gameState = [InitGameState EXCEPT !.isActive = TRUE]
    /\ sincePush = 0
    /\ passes = <<>>
    /\ pulls = <<>>
    /\ events = 0
    /\ detected = [i \in EntityIds |-> 0]
    /\ killed = [i \in RemoteIds |-> 0]
    /\ prevSnap = NoSnapshot
    /\ last = Idle(player)
    /\ pushes = 0
    /\ failures = 0
    /\ exits = <<>>
    /\ leaves = 0
    /\ lobby = NoLobby
    /\ ui = Sidebar("mock")
    /\ probe = NoProbe

besideWorld == <<gameStarted, currentGameId, sincePush, passes, pulls, detected,
                 killed, prevSnap, pushes, failures, exits, leaves, offCanvas>>

\* useEffect: if (gameState.food.length === 0) generate food, players, power-ups
generateWorld ==
    /\ gameStarted
    /\ gameState.food = <<>>
    /\ \E w \in OfflineWorlds :
          gameState' = [gameState EXCEPT !.food = w.food,
                                         !.otherPlayers = w.otherPlayers,
                                         !.powerUps = w.powerUps]
    /\ last' = Mark("generate", player)
    /\ UNCHANGED <<events, player, besideWorld>>

MouseMoveOffline ==
    /\ gameStarted
    /\ events < MaxEvents
    /\ \E m \in MousePoints :
          player' = handleMouseMove_offline(player, player.x, player.y, m[1], m[2])
    /\ events' = events + 1
    /\ last' = Idle(player')
    /\ UNCHANGED <<gameState, besideWorld>>

\* one animation frame of the offline copy: the queued updaters run in the
\* order of the calls; checkCollisions works on the rendered player and
\* arrays (seen), and its setGameState calls put back arrays filtered from
\* those
gameLoop_offline(drift, spawn) ==
    LET seen  == Seen(player, gameState)
        moved == MoveOthers(gameState.otherPlayers, drift)
        grown == IF \E k \in 1..Len(gameState.food) : gameState.food[k].id = "f3"
                 THEN gameState.food ELSE gameState.food \o spawn
    IN  /\ gameStarted
        /\ events < MaxEvents
        /\ player.isAlive
        /\ player' = checkCollisions_offline(Integrate_offline(player), seen)
        /\ gameState' =
              [gameState EXCEPT
                  !.food = IF Len(NewFood(seen)) # Len(seen.food)
                           THEN NewFood(seen) ELSE grown,
                  !.otherPlayers = IF Len(UpdatedOtherPlayers(seen)) # Len(seen.otherPlayers)
                                   THEN UpdatedOtherPlayers(seen) ELSE moved,
                  !.powerUps = IF Len(NewPowerUps(seen)) # Len(seen.powerUps)
                               THEN NewPowerUps(seen) ELSE @]
        /\ events' = events + 1
        /\ last' = Step("tickOffline", player, seen, NoSnapshot, {}, FALSE, NoPush)
        /\ UNCHANGED besideWorld

\* if (!player.isAlive) return
TickDeadOffline ==
    /\ gameStarted
    /\ events < MaxEvents
    /\ ~player.isAlive
    /\ events' = events + 1
    /\ last' = Idle(player)
    /\ UNCHANGED <<player, gameState, besideWorld>>

----------------------------------------------------------------------------
(* Specifications *)

\* the engine in a game: ticks, collision passes, pulls
Next ==
    \/ StartGame
    \/ StartGameFails
    \/ MouseMove
    \/ TickDead
    \/ \E dt \in FrameGaps : TickSync(dt)
    \/ \E dt \in FrameGaps : TickAsync(dt)
    \/ \E i \in 1..Len(passes) : ConsumeFoodReturnsThenPowerUp(i)
    \/ \E i \in 1..Len(passes) : ConsumeFoodReturns(i)
    \/ \E i \in 1..Len(passes) : ConsumePowerUpReturns(i)
    \/ \E i \in 1..Len(passes) : ConsumePowerUpFails(i)
    \/ IssuePull
    \/ \E i \in 1..Len(pulls) : PullReturns(i)
    \/ \E i \in 1..Len(pulls) : PullFails(i)

Spec == Init /\ [][Next]_vars

\* a registered player with the money App.js starts with
InitNet ==
    /\ player = InitPlayer(100)
    /\ lobby = NoLobby
    /\ ui = Sidebar("api")
    /\ probe = NoProbe
    /\ Fresh

\* the engine in a game with every outcome of every network call
NextNet ==
    \/ StartGame
    \/ MouseMove
    \/ \E dt \in FrameGaps : TickSync(dt)
    \/ \E dt \in FrameGaps : TickAsync(dt)
    \/ PushReturns
    \/ PushFails
    \/ \E i \in 1..Len(passes) : ConsumeFoodReturnsThenPowerUp(i)
    \/ \E i \in 1..Len(passes) : ConsumeFoodFailsThenPowerUp(i)
    \/ \E i \in 1..Len(passes) : ConsumeFoodReturns(i)
    \/ \E i \in 1..Len(passes) : ConsumeFoodFails(i)
    \/ \E i \in 1..Len(passes) : ConsumePowerUpReturns(i)
    \/ \E i \in 1..Len(passes) : ConsumePowerUpFails(i)
    \/ IssuePull
    \/ \E i \in 1..Len(pulls) : PullReturns(i)
    \/ \E i \in 1..Len(pulls) : PullFails(i)

NetSpec == InitNet /\ [][NextNet]_vars

\* a session from its start to its end
NextSession ==
    \/ StartGame
    \/ TickDead
    \/ \E dt \in FrameGaps : TickSync(dt)
    \/ IssuePull
    \/ \E i \in 1..Len(pulls) : PullReturns(i)
    \/ BackToLobby
    \/ \E i \in 1..Len(exits) : UpdateStatsReturns(i)
    \/ \E i \in 1..Len(exits) : UpdateStatsFails(i)
    \/ \E i \in 1..Len(exits) : LeaveReturns(i)
    \/ \E i \in 1..Len(exits) : LeaveFails(i)
    \/ GameOver
    \/ \E i \in 1..Len(exits) : GameOverLeaveReturns(i)
    \/ \E i \in 1..Len(exits) : GameOverLeaveFails(i)

SessionSpec == Init /\ [][NextSession]_vars

\* from the first render of the lobby into a game
NextLobby ==
    \/ \E n \in Names : TypeName(n)
    \/ RegisterTimer
    \/ \E i \in 1..Len(lobby.regs) : RegisterReturns(i)
    \/ \E i \in 1..Len(lobby.regs) : RegisterFails(i)
    \/ StartGame
    \/ StartGameUnregistered
    \/ StartGameFails
    \/ IssuePull
    \/ \E i \in 1..Len(pulls) : PullReturns(i)

LobbySpec == InitLobby /\ [][NextLobby]_vars

\* a game with the sidebar in use
NextUI ==
    \/ StartGame
    \/ \E dt \in FrameGaps : TickSync(dt)
    \/ \E amount \in AddAmounts : handleAddMoneyMock(amount)
    \/ handleWithdrawMock(WithdrawAmount)
    \/ \E amount \in AddAmounts : handleAddMoney(amount)
    \/ \E amount \in AddAmounts : handleAddMoneyModal(amount)
    \/ AddMoneyReturns
    \/ GetPlayerReturns
    \/ PaymentFails
    \/ handleWithdraw(WithdrawAmount)
    \/ WithdrawReturns

UISpec == InitUI /\ [][NextUI]_vars

\* the sizing law applied to two masses
NextSize ==
    \/ Measure /\ UNCHANGED besideProbe
    \/ MeasureOffline /\ UNCHANGED besideProbe

SizeSpec == InitSize /\ [][NextSize]_vars

\* frames that outrun the consumeFood / consumePowerUp calls
NextOverlap ==
    \/ StartGame
    \/ \E dt \in FrameGaps : TickSync(dt)
    \/ \E dt \in FrameGaps : TickOverlapping(dt)
    \/ \E i \in 1..Len(passes) : ConsumeFoodReturnsThenPowerUp(i)
    \/ \E i \in 1..Len(passes) : ConsumeFoodReturns(i)
    \/ \E i \in 1..Len(passes) : ConsumeFoodFails(i)
    \/ \E i \in 1..Len(passes) : ConsumePowerUpReturns(i)
    \/ \E i \in 1..Len(passes) : ConsumePowerUpFails(i)

OverlapSpec == InitNet /\ [][NextOverlap]_vars

\* the pull timer of a mounted canvas, as long as the game lasts
PullTimer ==
    /\ Len(pulls) < MaxPulls
    /\ updateTimer
    /\ UNCHANGED events

NextPull ==
    \/ StartGame
    \/ PullTimer
    \/ \E i \in 1..Len(pulls) : PullReturns(i)
    \/ \E i \in 1..Len(pulls) : PullFails(i)

\* the interval keeps firing while the canvas is mounted, and every request
\* settles: apiClient has a timeout
PullSpec ==
    /\ Init
    /\ [][NextPull]_vars
    /\ WF_vars(PullTimer)
    /\ WF_vars(\E i \in 1..Len(pulls) : PullReturns(i) \/ PullFails(i))

\* the offline copy of the engine
NextOffline ==
    \/ generateWorld
    \/ MouseMoveOffline
    \/ \E drift \in Drifts, spawn \in Spawns : gameLoop_offline(drift, spawn)
    \/ TickDeadOffline

OfflineSpec == InitOffline /\ [][NextOffline]_vars


----------------------------------------------------------------------------
(* Properties.  A resolution pass has just completed in a state whose      *)
(* last.op is "tick" (the pass ran inside the frame) or "resolve" (it ran  *)
(* after its last await); last.seen is what the pass scanned and last.pre  *)
(* the player before the step.                                             *)

Resolved == last.op \in {"tick", "resolve"}

\* a > b * 1.2
Exceeds(a, b) == 10 * a > 12 * b

Touching(seen) == SelectSeq(seen.otherPlayers, LAMBDA o : OtherHit(seen, o))

Smaller(seen) ==
    SelectSeq(Touching(seen),
              LAMBDA o : Exceeds(calculateSize(seen.money), calculateSize(o.money)))

Larger(seen) ==
    SelectSeq(Touching(seen),
              LAMBDA o : Exceeds(calculateSize(o.money), calculateSize(seen.money)))

\* sum of floor(money * 0.8) over a sequence of players
RECURSIVE SumEarned(_)
SumEarned(s) ==
    IF s = <<>> THEN 0 ELSE (8 * Head(s).money) \div 10 + SumEarned(Tail(s))

ExpectedGain(seen) == PointsEarned(seen) + SumEarned(Smaller(seen))

\* C1: a resolution pass adds exactly floor(m2 * 0.8) to money, virtualMoney
\* and score for every overlapping remote player whose radius the local
\* radius exceeds by the factor 1.2 (on top of the food and power-up values
\* of the pass), and leaves the alive flag as it was when no overlapping
\* remote player is larger by that factor.
C1_EatGain ==
    Resolved =>
        /\ player.money = last.pre.money + ExpectedGain(last.seen)
        /\ player.virtualMoney = last.pre.virtualMoney + ExpectedGain(last.seen)
        /\ player.score = last.pre.score + ExpectedGain(last.seen)
        /\ (Smaller(last.seen) # <<>> /\ Larger(last.seen) = <<>>)
              => player.isAlive = last.pre.isAlive

C1_Witness ==
    /\ last.op = "tick"
    /\ Len(Smaller(last.seen)) = 1
    /\ PointsEarned(last.seen) = 0
    /\ Smaller(last.seen)[1].money = 3
    /\ player.money = last.pre.money + 2
    /\ player.score = last.pre.score + 2
    /\ player.isAlive

\* C2: a resolution pass in which every overlapping remote player is within
\* the 20% margin (neither radius exceeds 1.2 times the other) changes none
\* of kills and the alive flag, adds only the food and power-up values of the
\* pass to money, virtualMoney and score, and leaves the remote-player set
\* as it was.
C2_WithinMargin ==
    [][(/\ last'.op \in {"tick", "resolve"}
        /\ Smaller(last'.seen) = <<>>
        /\ Larger(last'.seen) = <<>>)
       => /\ player'.money = player.money + PointsEarned(last'.seen)
          /\ player'.virtualMoney = player.virtualMoney + PointsEarned(last'.seen)
          /\ player'.score = player.score + PointsEarned(last'.seen)
          /\ player'.kills = player.kills
          /\ player'.isAlive = player.isAlive
          /\ gameState'.otherPlayers = gameState.otherPlayers]_vars

C2_Witness ==
    /\ last.op = "tick"
    /\ Touching(last.seen) # <<>>
    /\ Smaller(last.seen) = <<>>
    /\ Larger(last.seen) = <<>>
    /\ player.money = last.pre.money
    /\ player.isAlive
    /\ gameState.otherPlayers = last.seen.otherPlayers

\* C3: a resolution pass in which an overlapping remote player's radius
\* exceeds 1.2 times the local radius leaves the local player not alive, and
\* the larger player adds no kill and no money or score: kills and score
\* grow only by the smaller players eaten and the food of the pass.
C3_Death ==
    (Resolved /\ Larger(last.seen) # <<>>) =>
        /\ ~player.isAlive
        /\ player.kills = last.pre.kills + Len(Smaller(last.seen))
        /\ player.score - last.pre.score = player.money - last.pre.money
        /\ player.score - last.pre.score
              = PointsEarned(last.seen) + SumEarned(Smaller(last.seen))

C3_Witness ==
    /\ Resolved
    /\ Larger(last.seen) # <<>>
    /\ last.pre.isAlive
    /\ ~player.isAlive
    /\ player.money = last.pre.money
    /\ player.kills = last.pre.kills

\* C4: between two applied snapshots no food or power-up id is detected as
\* consumed in more than one tick.
C4_DetectedOnce == \A i \in EntityIds : detected[i] <= 1

\* C5: between two applied snapshots the same remote player adds at most one
\* kill (and one gain) to the local player.
C5_KilledOnce == \A i \in RemoteIds : killed[i] <= 1

\* C6: after every integration step the position satisfies
\* radius <= x <= CANVAS_WIDTH - radius and radius <= y <= CANVAS_HEIGHT - radius
\* for the radius of the money integrated with.
C6_BoundaryLaw ==
    last.op \in {"tick", "tickAsync"} =>
        LET radius == calculateSize(last.pre.money)
        IN  /\ radius <= player.x
            /\ player.x <= 10 * CANVAS_WIDTH - radius
            /\ radius <= player.y
            /\ player.y <= 10 * CANVAS_HEIGHT - radius

\* the local player's entries in a server answer
OwnEntries(server) ==
    SelectSeq(OrEmpty(server, "players", server.players),
              LAMBDA p : p.playerId = player.id)

\* C7: after a pulled snapshot is applied the alive flag of the local player
\* is the one the snapshot gives for the local player.
C7_ServerWinsAlive ==
    last.op = "apply" =>
        \A i \in 1..Len(OwnEntries(last.snap)) :
            player.isAlive = OwnEntries(last.snap)[i].isAlive

\* C8: after the snapshot of createGame or of a pull is applied, food and
\* power-ups are the snapshot's (empty when the answer lacks the field) and
\* the remote players are the snapshot's players without the local id; no
\* reachable state holds a remote player with the local id.
C8_WorldIsSnapshot ==
    /\ last.op \in {"start", "apply"} =>
          /\ gameState.food = OrEmpty(last.snap, "food", last.snap.food)
          /\ gameState.powerUps = OrEmpty(last.snap, "powerUps", last.snap.powerUps)
          /\ gameState.otherPlayers =
                SelectSeq(OrEmpty(last.snap, "players", last.snap.players),
                          LAMBDA p : p.playerId # player.id)
    /\ \A i \in 1..Len(gameState.otherPlayers) :
          gameState.otherPlayers[i].playerId # player.id

C8_Witness ==
    /\ last.op = "apply"
    /\ OwnEntries(last.snap) # <<>>
    /\ gameState.otherPlayers # <<>>
    /\ gameState.food # <<>>
    /\ Len(gameState.otherPlayers) < Len(last.snap.players)

\* C9: applying the same pulled snapshot a second time, directly after the
\* first, leaves the remote players, the food and the power-ups unchanged.
C9_Idempotent ==
    [][(last.op = "apply" /\ last'.op = "apply" /\ last'.snap = last.snap)
       => /\ gameState'.otherPlayers = gameState.otherPlayers
          /\ gameState'.food = gameState.food
          /\ gameState'.powerUps = gameState.powerUps]_vars

C9_Witness ==
    /\ last.op = "apply"
    /\ last.repeat
    /\ gameState.food # <<>>
    /\ gameState.otherPlayers # <<>>

\* C10: an entity consumed locally since the previous snapshot that is still
\* in the snapshot just applied is in the entity sets again.
C10_Restored ==
    last.op = "apply" =>
        /\ \A i \in 1..Len(OrEmpty(last.snap, "food", last.snap.food)) :
              last.snap.food[i].id \in last.consumed
                 => last.snap.food[i] \in SeqToSet(gameState.food)
        /\ \A i \in 1..Len(OrEmpty(last.snap, "powerUps", last.snap.powerUps)) :
              last.snap.powerUps[i].id \in last.consumed
                 => last.snap.powerUps[i] \in SeqToSet(gameState.powerUps)
        /\ \A i \in 1..Len(OrEmpty(last.snap, "players", last.snap.players)) :
              (/\ last.snap.players[i].playerId \in last.consumed
               /\ last.snap.players[i].playerId # player.id)
                 => last.snap.players[i] \in SeqToSet(gameState.otherPlayers)

C10_Witness ==
    /\ last.op = "apply"
    /\ "f1" \in last.consumed
    /\ "a" \in last.consumed
    /\ Food1 \in SeqToSet(gameState.food)
    /\ Tiny \in SeqToSet(gameState.otherPlayers)

\* the remote players of a server answer, as the client keeps them
Remote(server) ==
    SelectSeq(OrEmpty(server, "players", server.players),
              LAMBDA p : p.playerId # player.id)

\* C11: in a running game of the online engine the remote players are, field
\* for field and in order, the players of the snapshot applied last (without
\* the local player): no tick, mouse event or collision pass adds, removes,
\* moves or changes one.
C11_RemoteAsSnapshot ==
    gameStarted => gameState.otherPlayers = Remote(prevSnap)

C11_Witness ==
    /\ last.op = "tick"
    /\ Eaten(last.seen) # <<>>
    /\ player.x # last.pre.x
    /\ gameState.otherPlayers = Remote(prevSnap)
    /\ Eaten(last.seen)[1] \in SeqToSet(gameState.otherPlayers)

\* the pass scanned exactly one food, no power-up and no remote player
OneFood(seen) ==
    /\ Len(ConsumedFood(seen)) = 1
    /\ ConsumedPowerUps(seen) = <<>>
    /\ Touching(seen) = <<>>

\* C12: a pass that overlaps exactly one food of value v, no power-up and no
\* remote player sends that food's id as consumed (the frame puts it in
\* consumedFoodIds) and, when it resolves, adds exactly v to money,
\* virtualMoney and score and leaves kills, the alive flag, the active
\* power-ups and the remote players as they were.
C12_OneFood ==
    [][/\ (last'.op = "tickAsync" /\ OneFood(last'.seen))
          => /\ passes'[Len(passes')].consumedFoodIds = <<ConsumedFood(last'.seen)[1].id>>
             /\ passes'[Len(passes')].consumedPowerUpIds = <<>>
             /\ detected'[ConsumedFood(last'.seen)[1].id] >= 1
       /\ (last'.op = "resolve" /\ OneFood(last'.seen))
          => LET v == ConsumedFood(last'.seen)[1].value
             IN  /\ player'.money = player.money + v
                 /\ player'.virtualMoney = player.virtualMoney + v
                 /\ player'.score = player.score + v
                 /\ player'.kills = player.kills
                 /\ player'.isAlive = player.isAlive
                 /\ player'.powerUps = player.powerUps
                 /\ gameState'.otherPlayers = gameState.otherPlayers]_vars

C12_Witness ==
    /\ last.op = "resolve"
    /\ OneFood(last.seen)
    /\ ConsumedFood(last.seen)[1] = Food1
    /\ last.pre.money = 100
    /\ player.money = 105
    /\ player.score = last.pre.score + 5
    /\ player.isAlive

\* C13: the local player's money is never negative.
C13_MoneyNonNegative == player.money >= 0

\* C14: for masses m1 <= m2 the sizing law gives calculateSize(m1) <=
\* calculateSize(m2), and it never gives less than MIN_SIZE, in the online
\* engine and in the offline copy alike.
C14_SizeMonotone ==
    probe.measured # "no" =>
        /\ probe.m1 <= probe.m2 => probe.size1 <= probe.size2
        /\ probe.size1 >= 10 * (IF probe.measured = "online" THEN MIN_SIZE
                                ELSE MIN_SIZE_offline)

C14_Witness ==
    /\ probe.measured = "online"
    /\ probe.m1 < probe.m2
    /\ probe.size1 < probe.size2
    /\ probe.size1 > 10 * MIN_SIZE

\* C15: a failed pull leaves the game running under the same game id; after
\* a failed pull a pull is issued again; and the pull that succeeds after any
\* number of failures replaces the world by its snapshot, the game still
\* running under the same id.
C15_PullsResume ==
    /\ [][(last'.op = "pull" /\ last'.failed)
          => /\ gameStarted' = gameStarted
             /\ currentGameId' = currentGameId]_vars
    /\ [][(last'.op = "apply" /\ last'.after > 0)
          => /\ gameStarted' /\ gameStarted
             /\ currentGameId' = currentGameId
             /\ gameState'.food = OrEmpty(last'.snap, "food", last'.snap.food)
             /\ gameState'.powerUps = OrEmpty(last'.snap, "powerUps", last'.snap.powerUps)
             /\ gameState'.otherPlayers = Remote(last'.snap)]_vars
    /\ []((last.op = "pull" /\ last.failed) => <>(last.op = "issue"))

C15_Witness ==
    /\ last.op = "apply"
    /\ last.after = MaxFailures
    /\ gameStarted
    /\ currentGameId \in GameIds
    /\ gameState.otherPlayers = Remote(last.snap)
    /\ gameState.otherPlayers # <<>>

\* C16: a step in which a network call fails (position push, pull, food or
\* power-up notification) leaves the world snapshot, the position and the
\* mounted canvas as they were; the alive flag changes in such a step only
\* when the pass that was waiting for the call resolves a collision with a
\* larger remote player, as it does after a successful call.
C16_FailureIsLocal ==
    [][last'.failed
       => /\ gameState' = gameState
          /\ player'.x = player.x
          /\ player'.y = player.y
          /\ gameStarted' = gameStarted
          /\ currentGameId' = currentGameId
          /\ \/ player'.isAlive = player.isAlive
             \/ last'.op = "resolve" /\ Larger(last'.seen) # <<>>]_vars

\* a frame that moved the player and scanned the remote players of the old
\* snapshot, after a pull had failed
C16_Witness ==
    /\ last.op = "tick"
    /\ failures > 0
    /\ player.x # last.pre.x
    /\ last.seen.otherPlayers # <<>>
    /\ last.seen.otherPlayers = Remote(prevSnap)

\* C17: a pass whose food or power-up notification failed still adds the
\* points of its frame (and the gains of the players it eats) to money,
\* virtualMoney and score.
C17_AwardStands ==
    (last.op = "resolve" /\ last.failed) =>
        /\ player.money = last.pre.money + ExpectedGain(last.seen)
        /\ player.virtualMoney = last.pre.virtualMoney + ExpectedGain(last.seen)
        /\ player.score = last.pre.score + ExpectedGain(last.seen)

C17_Witness ==
    /\ last.op = "resolve"
    /\ last.failed
    /\ PointsEarned(last.seen) = 5
    /\ player.money = last.pre.money + 5
    /\ player.score = last.pre.score + 5

C19_OneLeave == last.op = "ended" => leaves = 1

\* C20: while a game is running the local player's id does not change.
C20_StableId ==
    [][(gameStarted /\ gameStarted') => player'.id = player.id]_vars

----------------------------------------------------------------------------
(* Order of the steps of a tick, and what travels to the remote source *)

\* the step issued a call to one of the endpoints
Issues(step, apis) == \E c \in step.calls : c.api \in apis

Notifications == {"consumeFood", "consumePowerUp"}

\* C21: a step that issues a position push or a consumption notification
\* leaves the collision resolution of its tick completed: the pass that
\* made the call is not left suspended, and the tick's gains (food, power-up
\* and kill awards) are applied to the player's money in that same step.
C21_LocalBeforeNetwork ==
    [][Issues(last', Notifications \cup {"updatePosition"}) =>
          /\ \A k \in 1..Len(passes') : passes'[k] \in SeqToSet(passes)
          /\ last'.op \in {"tick", "tickAsync"} =>
                 player'.money = player.money + ExpectedGain(last'.seen)]_vars

\* C22: while a resolution pass is between its scan and its award, no step
\* replaces the food, power-up or remote-player set.
C22_NoApplyMidResolution ==
    [][passes # <<>> =>
          /\ gameState'.food = gameState.food
          /\ gameState'.powerUps = gameState.powerUps
          /\ gameState'.otherPlayers = gameState.otherPlayers]_vars

\* what a pass of the offline copy detects: the food and power-up values
\* and floor(money * 0.8) of every remote player it eats
GainsOffline(seen) ==
    SumValues(SelectSeq(seen.food, LAMBDA f : FoodHit_offline(seen, f)))
    + SumValues(SelectSeq(seen.powerUps, LAMBDA p : PowerUpHit_offline(seen, p)))
    + SumEarned(SelectSeq(seen.otherPlayers,
                          LAMBDA o : OutcomeFor_offline(seen, o) = "eat"))

\* the gains of the pass a step resolves (none when it resolves no pass)
TickGains(step) ==
    IF step.op = "tickOffline" THEN GainsOffline(step.seen)
    ELSE IF step.op \in {"tick", "resolve"} THEN ExpectedGain(step.seen)
    ELSE 0

\* C23: in a running game every step changes money, virtualMoney and score
\* by the same amount, which is nothing or the whole of the gains (food,
\* power-up and kill values) of the one pass the step resolves: no state
\* holds a part of a tick's gains.
C23_GainsAtOnce ==
    [][(gameStarted /\ gameStarted') =>
          /\ player'.money = player.money + TickGains(last')
          /\ player'.virtualMoney = player.virtualMoney + TickGains(last')
          /\ player'.score = player.score + TickGains(last')]_vars

\* the calls to one endpoint among those a step issued
CallsTo(step, api) == {c \in step.calls : c.api = api}

\* the one notification a frame owes for the ids it detected, or none
Owed(api, ids) ==
    IF ids = <<>> THEN {} ELSE {Call(api, currentGameId, player.id, ids)}

\* C24: every frame of a running game issues exactly one consumeFood call
\* with the local player's id and the food ids it detected when it detected
\* any, and none otherwise; and likewise one consumePowerUp call for the
\* power-up ids it detected.
C24_NotifiedInTick ==
    [][last'.op \in {"tick", "tickAsync"} =>
          /\ CallsTo(last', "consumeFood")
                = Owed("consumeFood", Ids(ConsumedFood(last'.seen)))
          /\ CallsTo(last', "consumePowerUp")
                = Owed("consumePowerUp", Ids(ConsumedPowerUps(last'.seen)))]_vars

\* C25: the step in which a pass resolves a kill issues, for every remote
\* player the local player ate, a call carrying the local player's id and
\* that player's id.
C25_KillNotified ==
    Resolved =>
        \A k \in 1..Len(Smaller(last.seen)) :
            \E c \in last.calls :
                /\ c.playerId = last.pre.id
                /\ c.ids = <<Smaller(last.seen)[k].playerId>>

----------------------------------------------------------------------------
(* The pull cadence *)

\* what the hosting application (App.js) holds and can show
Surfaced == <<gameStarted, currentGameId, player, gameState>>

\* C26: the failed pull that completes a run of MaxFailures failures in a
\* row changes what the hosting application holds (the session enters a
\* Disconnected state the application can see).
C26_DisconnectedSurfaced ==
    [][(failures < MaxFailures /\ failures' = MaxFailures) => Surfaced' # Surfaced]_vars

\* C27: a failed pull takes its request out of flight and issues none; a
\* request is put in flight only by a firing of the one-second timer, one
\* per firing.
C27_NoImmediateRetry ==
    [][/\ (last'.op = "pull" /\ last'.failed) =>
              /\ Len(pulls') = Len(pulls) - 1
              /\ ~Issues(last', {"getGameState"})
       /\ (Len(pulls') > Len(pulls) \/ Issues(last', {"getGameState"})) =>
              /\ last'.op = "issue"
              /\ Len(pulls') = Len(pulls) + 1]_vars

\* the timer has issued a pull after a failed one
C27_Witness ==
    /\ last.op = "issue"
    /\ failures > 0
    /\ pulls # <<>>

\* C28: no step of a player who is not alive issues a position push; a
\* step issues at most one; and a step that issues one restarts the push
\* clock and sends the position the player has after the step's integration
\* and the money the player had when the frame ran.
C28_PushIsCurrent ==
    [][/\ ~player.isAlive => ~Issues(last', {"updatePosition"})
       /\ Cardinality(CallsTo(last', "updatePosition")) <= 1
       /\ Issues(last', {"updatePosition"}) =>
              /\ last'.push.sent
              /\ sincePush' = 0
              /\ last'.push.x = player'.x
              /\ last'.push.y = player'.y
              /\ last'.push.money = player.money]_vars

----------------------------------------------------------------------------
(* The speed law *)

\* C29: whichever copy of the engine computes it, the per-tick speed for a
\* radius is max(MOVE_SPEED - radius * 0.03, 2) (the constants of
\* GameCanvas.js), it does not increase with the mass, and it is never
\* below the floor of 2.
C29_OneSpeedLaw ==
    probe.measured # "no" =>
        /\ probe.speed1 = Max(10 * MOVE_SPEED - Quot(3 * probe.size1, 100), 20)
        /\ probe.speed2 = Max(10 * MOVE_SPEED - Quot(3 * probe.size2, 100), 20)
        /\ probe.m1 <= probe.m2 => probe.speed1 >= probe.speed2
        /\ probe.speed1 >= 20

----------------------------------------------------------------------------
(* Back to Lobby: where it ends and what it accounts for *)

\* the step in which a Back to Lobby handler finishes, in its try block or
\* in its catch block
ReturnsToLobby ==
    /\ last'.op = "ended"
    /\ \E i \in 1..Len(exits) : exits[i].kind = "lobby" /\ exits' = RemoveAt(exits, i)

\* C31: Back to Lobby always ends in the lobby (gameStarted false, no game id),
\* whether or not updateStats or leaveGame failed, and every such return
\* counts the session: totalGames one more, score and kills 0, alive again,
\* the world's food, other players and power-ups emptied
C31_SessionAccounted ==
    [][ReturnsToLobby =>
          /\ ~gameStarted'
          /\ currentGameId' = NoGame
          /\ player'.totalGames = player.totalGames + 1
          /\ player'.score = 0
          /\ player'.kills = 0
          /\ player'.isAlive
          /\ gameState'.food = <<>>
          /\ gameState'.otherPlayers = <<>>
          /\ gameState'.powerUps = <<>>]_vars

\* the part of C31 the catch block keeps: the handler ends in the lobby
LobbyReached ==
    [][ReturnsToLobby => ~gameStarted' /\ currentGameId' = NoGame]_vars

----------------------------------------------------------------------------
(* Pulls in flight together *)

\* C32: with several pulls in flight, the answer to an earlier-issued pull
\* never replaces world state set by the answer to a later-issued pull
C32_NoStaleOverwrite == last.op = "apply" => ~last.stale

----------------------------------------------------------------------------
(* Resolution passes in flight together *)

\* what the suspended passes will award when they complete
RECURSIVE Pending(_)
Pending(ps) == IF ps = <<>> THEN 0 ELSE ExpectedGain(Head(ps).seen) + Pending(Tail(ps))

\* what the frame of a step found to award
Found(step) == IF step.op \in {"tick", "tickAsync"} THEN ExpectedGain(step.seen) ELSE 0

\* C33: no award is lost when passes overlap: what the player holds plus
\* what the suspended passes have yet to award grows in every step by
\* exactly what the step's frame found, for money, virtualMoney and score
\* alike, so that once all passes have completed, in any order, each total
\* is its starting value plus the gains of every pass
C33_NoAwardLost ==
    [][(gameStarted /\ gameStarted') =>
          /\ player'.money + Pending(passes')
                = player.money + Pending(passes) + Found(last')
          /\ player'.virtualMoney + Pending(passes')
                = player.virtualMoney + Pending(passes) + Found(last')
          /\ player'.score + Pending(passes')
                = player.score + Pending(passes) + Found(last')]_vars

\* a pass has completed and awarded its gain while a pass that a later frame
\* started from the same rendered player is still suspended
C33_Witness ==
    /\ last.op = "resolve"
    /\ passes # <<>>
    /\ passes[1].seen.money = last.seen.money
    /\ ExpectedGain(last.seen) > 0
    /\ player.money = last.pre.money + ExpectedGain(last.seen)

----------------------------------------------------------------------------
(* After the death of the player *)

\* C34: once the alive flag is false, the position, money, score and kills
\* of the player never change again in that session: no later frame moves
\* the player and no suspended pass awards a gain or a kill
C34_DeadIsFrozen ==
    [][(gameStarted /\ gameStarted' /\ ~player.isAlive) =>
          /\ player'.x = player.x
          /\ player'.y = player.y
          /\ player'.money = player.money
          /\ player'.score = player.score
          /\ player'.kills = player.kills]_vars

\* the part of C34 that gameLoop keeps: a frame of a dead player changes nothing
DeadFrameIsIdle ==
    [][(~player.isAlive /\ last'.op \in {"tick", "tickAsync"}) => FALSE]_vars

----------------------------------------------------------------------------
(* The three totals a gain is added to *)

\* C35: every gain is added alike to money, virtualMoney and score, so over
\* the frames of one session, with no payment, withdrawal or purchase,
\* money - score and virtualMoney - score stay what they were
C35_GainsAlike ==
    [][(gameStarted /\ gameStarted') =>
          /\ player'.money - player'.score = player.money - player.score
          /\ player'.virtualMoney - player'.score
                = player.virtualMoney - player.score]_vars

----------------------------------------------------------------------------
(* Starting a game *)

\* C36: starting a game has no effect unless it succeeds: without a player
\* id no createGame call is made, and when createGame fails gameStarted
\* stays false and the game id, the player record and the world are the
\* ones from before
C36_FailedStartIsIdle ==
    [][/\ \A c \in CallsTo(last', "createGame") : c.playerId # NoId
       /\ (last'.op = "start" /\ last'.failed) =>
             /\ player.id = NoId => CallsTo(last', "createGame") = {}
             /\ ~gameStarted'
             /\ currentGameId' = currentGameId
             /\ player' = player
             /\ gameState' = gameState]_vars

\* createGame was called for a registered player and threw
C36_Witness ==
    /\ last.op = "start"
    /\ last.failed
    /\ CallsTo(last, "createGame") # {}
    /\ player.id # NoId
    /\ ~gameStarted
    /\ currentGameId = NoGame

----------------------------------------------------------------------------
(* Payments and withdrawals *)

Balances(pl) == <<pl.money, pl.virtualMoney, pl.realMoney>>

\* C37: at most one add-money or withdraw request of a component is in
\* flight: a request started while the processing flag is set is ignored,
\* the flag is cleared after every request, and a request that threw or was
\* answered without success changes none of the balances
C37_OneRequest ==
    [][/\ ui'.inFlight <= 1
       /\ (ui.isProcessingPayment /\ last'.op \in {"pay", "ignored", "short"})
             => ui' = ui /\ player' = player
       /\ ui'.request = NoRequest => ~ui'.isProcessingPayment
       /\ (last'.op = "refused" \/ (last'.op = "payment" /\ last'.failed))
             => /\ Balances(player') = Balances(player)
                /\ ~ui'.isProcessingPayment]_vars

\* a button was clicked while a request was awaited, and nothing was sent
C37_Witness ==
    /\ last.op = "ignored"
    /\ ui.isProcessingPayment
    /\ ui.inFlight = 1
    /\ ui.request.kind \in {"addMoney", "withdraw"}

\* C38: a withdrawal of amount a is applied only when virtualMoney >= a, so
\* virtualMoney is never negative after any sequence of withdrawals,
\* payments and in-game gains, gains that arrive while a withdrawal is
\* awaited included
C38_NoOverdraft ==
    [][/\ player.virtualMoney >= 0 => player'.virtualMoney >= 0
       /\ (last'.op = "withdraw" /\ player'.virtualMoney # player.virtualMoney)
            => /\ player.virtualMoney >= WithdrawAmount
               /\ player'.virtualMoney = player.virtualMoney - WithdrawAmount]_vars

\* a withdrawal was applied that leaves less than another one needs
C38_Witness ==
    /\ last.op = "withdraw"
    /\ last.pre.virtualMoney >= WithdrawAmount
    /\ player.virtualMoney = last.pre.virtualMoney - WithdrawAmount
    /\ player.virtualMoney < WithdrawAmount

----------------------------------------------------------------------------
(* The hosting application: gameStarted and the current game id *)

====
